---- MODULE Spec2Model ----
(***************************************************************************)
(* Booking ledger (ShiftBookingState), booking workflow (ShiftBooking and  *)
(* EnhancedIntegratedMonitor._attempt_immediate_booking) and the           *)
(* bulletproof booking path of labi1240/amazon_shifts_bot.                 *)
(***************************************************************************)
EXTENDS Integers, Sequences, FiniteSets, TLC

\* ------------------------------------------------------------------ bounds
\* number of distinct job ids that cards on the page can carry
NumIds == 3

Ids == 1..NumIds

\* the job id of a card whose _extract_slot_info returned None
NoId == 0

\* calendar days are 0..MaxDay
MaxDay == 1

\* daily_count is an unbounded Python int; mark_as_booked is capped here
MaxCount == 4

\* most job cards on the page in one discovery
MaxCards == 3

\* most entries of the jobs list handed to _attempt_immediate_booking
MaxJobs == 2

\* most cycles a monitor loop runs (cycle_count is an unbounded Python int)
MaxCycles == 11

\* booking.daily_limit ranges over 1..MaxDailyLimit
MaxDailyLimit == 3

\* booking.per_cycle_limit ranges over 1..MaxPerCycleLimit
MaxPerCycleLimit == 2

\* most jobs a search hands to _process_jobs_bulletproof (the code looks at the
\* first 10 only)
MaxReportJobs == 2

\* monitoring.check_interval, in seconds
CheckInterval == 2

\* seconds slept after a stop request are counted up to MaxLate
MaxLate == 2

\* monitoring.max_cycles ranges over None and 1..MaxMaxCycles
MaxMaxCycles == 2

\* monitoring.error_retry_delay, in seconds
ErrorRetryDelay == 2

\* selectors in the list handed to a click operation
NumSelectors == 2

\* the attempt budget of a click operation ranges over 1..MaxBudget
MaxBudget == 3

\* the argument max_retries of send ranges over 0..MaxSendRetries
MaxSendRetries == 3

\* the configuration of the city cycle names 1..MaxCities cities
MaxCities == 2

\* a job report of the city cycle holds 0..MaxFound jobs
MaxFound == 11

\* ------------------------------------------------------------ state
VARIABLES
    today,      \* date.today(), as a day number
    store,      \* content of the state file booking_state.json
    handler,    \* "none" until a ShiftBooking(State) object exists, then "ready"
    state,      \* the ShiftBookingState fields (booked_today, daily_count, last_reset_date)
    raised,     \* TRUE iff the last ShiftBookingState() construction raised
    lastOp,     \* the operation performed by the last step, and the id it was given
    lastWrite,  \* outcome of the file write of the last step ("none" if it wrote nothing)
    marked,     \* ids mark_as_booked was called with on the current day, by any process
    proc,       \* which monitor the process runs: "down", "enhanced", "bulletproof"
    wf,         \* position and locals of _attempt_immediate_booking
    bp,         \* BulletproofMonitor: its fields and the position of its loop
    em,         \* EnhancedIntegratedMonitor.start_monitoring: fields and position
    ex,         \* one call of a click-with-retry operation: position and locals
    bk,         \* one booking operation on one candidate: position and locals
    nt,         \* one call of a notifier entry point: position and locals
    cli,        \* the command "run" of cli.py: position and exit code
    cw          \* one cycle of the enhanced monitor over the configured cities

\* the ledger, the booking workflow and the process
bookingVars == <<today, store, handler, state, raised, lastOp, lastWrite,
                 marked, proc, wf>>

\* the monitor loops and the action executor
loopVars == <<bp, em, ex, bk, nt, cli, cw>>

\* the booking operation, the notifier, the command line and the city cycle
svcVars == <<bk, nt, cli, cw>>

vars == <<bookingVars, loopVars>>

\* --------------------------------------------------------- the state file
CorruptKinds == {"invalid_json", "not_object", "unreadable"}

StoreOf(kind, booked, count, marker) ==
    [kind |-> kind, booked_today |-> booked, daily_count |-> count,
     last_reset_date |-> marker]

\* no file on disk
AbsentStore == StoreOf("absent", {}, 0, 0)

\* a file that is not a complete JSON object of the expected shape:
\*   invalid_json - json.load raises JSONDecodeError (also a truncated write)
\*   not_object   - valid JSON that is not an object (a list, null, a number)
\*   unreadable   - open() raises OSError
CorruptStore(kind) == StoreOf(kind, {}, 0, 0)

\* the JSON object _save_state dumps
RecordStore(st) ==
    StoreOf("record", st.booked_today, st.daily_count, st.last_reset_date)

\* ShiftBookingState.__init__ before _load_state
FreshState(day) == [booked_today |-> {}, daily_count |-> 0, last_reset_date |-> day]

\* outcomes of open(state_file, 'w') + json.dump in _save_state
\*   ok           - the file holds the new record
\*   open_failed  - open raised, the file is untouched
\*   write_failed - open truncated the file, json.dump raised part-way
\*   crash        - the process died after open truncated the file
WriteOutcomes == {"ok", "open_failed", "write_failed", "crash"}

\* _save_state: every exception is caught and logged
save_state(old, st, w) ==
    CASE w = "ok"          -> RecordStore(st)
      [] w = "open_failed" -> old
      [] OTHER             -> CorruptStore("invalid_json")

\* _reset_daily_state, the in-memory part
reset_daily_state(day) == [booked_today |-> {}, daily_count |-> 0, last_reset_date |-> day]

\* _load_state: what the constructor does with the file it finds.
\*   raises - the exception is not one of (JSONDecodeError, KeyError)
\*   saves  - _reset_daily_state ran and called _save_state
load_state(file, day) ==
    CASE file.kind = "absent" ->
            [raises |-> FALSE, saves |-> FALSE, st |-> FreshState(day)]
      [] file.kind = "unreadable" ->
            [raises |-> TRUE, saves |-> FALSE, st |-> FreshState(day)]
      [] file.kind = "not_object" ->
            [raises |-> TRUE, saves |-> FALSE, st |-> FreshState(day)]
      [] file.kind = "invalid_json" ->
            [raises |-> FALSE, saves |-> TRUE, st |-> reset_daily_state(day)]
      [] OTHER ->
            IF file.last_reset_date # day
            THEN [raises |-> FALSE, saves |-> TRUE, st |-> reset_daily_state(day)]
            ELSE [raises |-> FALSE, saves |-> FALSE,
                  st |-> [booked_today |-> file.booked_today,
                          daily_count |-> file.daily_count,
                          last_reset_date |-> file.last_reset_date]]

\* is_already_booked that never finds an id
is_already_booked_never(st, id) == id \in {}

\* is_already_booked
is_already_booked(st, id) == id \in st.booked_today

\* can_book_more
can_book_more(st, daily_limit) == st.daily_count < daily_limit

\* mark_as_booked, the in-memory part
mark_as_booked(st, id) ==
    [st EXCEPT !.booked_today = @ \cup {id}, !.daily_count = @ + 1]

\* the fields while no ShiftBookingState object exists
NoState == FreshState(0)

Op(name, id) == [op |-> name, id |-> id]

\* ShiftBookingState(state_file): __init__ and _load_state with the write
\* outcome w of the _save_state that a reset performs
ConstructResult(file, day, w) ==
    LET r == load_state(file, day) IN
    IF r.raises
    THEN [handler |-> "none", state |-> NoState, store |-> file,
          raised |-> TRUE, write |-> "none"]
    ELSE IF ~r.saves
    THEN [handler |-> "ready", state |-> r.st, store |-> file,
          raised |-> FALSE, write |-> "none"]
    ELSE IF w = "crash"
    THEN [handler |-> "none", state |-> NoState, store |-> save_state(file, r.st, w),
          raised |-> FALSE, write |-> w]
    ELSE [handler |-> "ready", state |-> r.st, store |-> save_state(file, r.st, w),
          raised |-> FALSE, write |-> w]

\* mark_as_booked(job_id) with the write outcome w of its _save_state
MarkResult(file, st, id, w) ==
    LET new == mark_as_booked(st, id) IN
    IF w = "crash"
    THEN [handler |-> "none", state |-> NoState, store |-> save_state(file, new, w)]
    ELSE [handler |-> "ready", state |-> new, store |-> save_state(file, new, w)]

\* ------------------------------------------------------- the workflow locals
\* _attempt_immediate_booking is idle, or at "discover" (about to call
\* discover_available_slots for the next job) or at "book" (about to call
\* book_slot on the next slot).
\*   jobsLeft - entries of jobs not yet iterated
\*   slots    - at "book": the slots "for slot in slots" has not yet reached
\*   found    - len(slots) as discover_available_slots returned it for this job
\*   log      - for each book_slot of this pass, in order: "apply" if it returned
\*              False at the apply step, "other" if it returned False elsewhere,
\*              "completed" if it returned True
\*   pre      - booked_today when the invocation started
\*   result   - "none" while running, then "booked" (True) or "failed" (False)
\*   booked   - the slot whose book_slot returned True
\*   indicator - the page showed a success indicator (confirmation text or URL)
\*              during the flow of that slot; book_slot never looks for one
NoSlot == [job_id |-> NoId, card_index |-> 0]

IdleWf == [pc |-> "idle", jobsLeft |-> 0, slots |-> <<>>, found |-> 0,
           log |-> <<>>, pre |-> {}, result |-> "none", booked |-> NoSlot,
           indicator |-> FALSE]

\* the invocation returned
Returned(w, res, slot) ==
    [w EXCEPT !.pc = "idle", !.jobsLeft = 0, !.slots = <<>>, !.pre = {},
              !.result = res, !.booked = slot]

\* ----------------------------------------------------- the monitors' locals
\* BulletproofMonitor before start_bulletproof_monitoring.
\*   pc       - "idle", "init" (start_bulletproof_monitoring is initializing and
\*              sending notifications, before "self.running = True"),
\*              "top" (the while test), "cycle" (_run_bulletproof_cycle is
\*              about to run), "jobs" (inside the loop of _process_jobs_bulletproof),
\*              "recovery" (inside the sleep of _enter_recovery_mode), "wait" (at
\*              the test of the loop of _wait_for_next_cycle), "sleep" (inside its
\*              time.sleep(1)), "exited" (the while loop has ended)
\*   jobsLeft - entries of jobs[:10] not yet iterated
\*   i        - iterations of the wait loop done
\*   left     - seconds left of the sleep in progress
\*   recoveries - history: calls of _enter_recovery_mode
\*   last       - history: how the last cycle went ("exception", "session_invalid",
\*                "searched")
\*   allRaised  - history: every cycle so far ended in an exception
\*   oneEach    - history: every finished cycle so far made exactly one booking
\*   stopped    - history: the signal handler has run
\*   late       - history: seconds slept since running became false
\*   found      - history: jobs the search of the last cycle returned
\*   attempts   - history: calls of attempt_bulletproof_booking in that cycle
\*   erred      - history: the cycle in progress or just ended met an error
\*                (session not valid, navigation or extraction failed in the
\*                search, exception while a job was processed)
\*   main_monitor, booking_service - the attributes: "none" (None), "current"
\*                (bound to the browser of the cycle in progress), "stale"
\*                (bound to the browser of an earlier cycle, closed since)
\*   searchedWith - history: main_monitor as the last search used it
\*   afterRecovery - history: how the last pass through _enter_recovery_mode
\*                went ("none", "reset", "fallback")
IdleBp ==
    [pc |-> "idle", running |-> FALSE, cycle_count |-> 0, total_bookings |-> 0,
     bookings_made |-> 0, consecutive_failures |-> 0, daily_limit |-> 0,
     per_cycle_limit |-> 0, jobsLeft |-> 0, i |-> 0, left |-> 0,
     recoveries |-> 0, last |-> "none", allRaised |-> TRUE, oneEach |-> TRUE,
     stopped |-> FALSE, late |-> 0, found |-> 0, attempts |-> 0,
     erred |-> FALSE, main_monitor |-> "none", booking_service |-> "none",
     searchedWith |-> "none", afterRecovery |-> "none"]

\* EnhancedIntegratedMonitor before start_monitoring.
\*   pc    - "idle", "top" (the while test), "workflow" (_run_enhanced_workflow is
\*           about to run), "retry_sleep" (inside time.sleep(error_retry_delay)),
\*           "sleep" (inside time.sleep(check_interval)), "exited"
\*   max_cycles - monitoring.max_cycles, 0 standing for None
\*   left  - seconds left of the sleep in progress
\*   last    - history: how _run_enhanced_workflow ended in the last cycle
\*   stopped - history: stop_monitoring was called from outside the loop
\*   late    - history: seconds slept since running became false
IdleEm ==
    [pc |-> "idle", running |-> FALSE, cycle |-> 0, daily_booking_count |-> 0,
     daily_limit |-> 0, max_cycles |-> 0, left |-> 0, last |-> "none",
     stopped |-> FALSE, late |-> 0]

\* No click operation in progress.
\*   fn      - the operation called
\*   pc      - "idle", "probe" (about to resolve selector sel in pass attempt),
\*             "returned", "raised"
\*   budget  - max_retries / max_click_retries / retry_count of the call
\*   attempt - the value of the loop variable attempt, from 0
\*   sel     - position in the selector list of the selector tried next, from 1
\*   passes  - history: passes over the selector list finished
\*   resolved - history: some selector yielded a visible, enabled control
\*   result  - the boolean returned
\*   activated - history: position of the selector whose control was clicked,
\*             0 when none was
\*   activatedKind - history: "ready" when the clicked control was displayed
\*             and enabled, "hidden" when it was not, "none" when none was clicked
IdleEx ==
    [fn |-> "none", pc |-> "idle", budget |-> 0, attempt |-> 0, sel |-> 1,
     passes |-> 0, resolved |-> FALSE, result |-> FALSE,
     activated |-> 0, activatedKind |-> "none"]

\* No booking operation in progress.
\*   fn      - "attempt_bulletproof_booking" or "book_slot"
\*   pc      - "idle", "card" (about to find and click the job card), "modals"
\*             (about to handle dropdowns and dialogs), "apply" (about to look
\*             for the apply button), "flow" (at the top of an iteration of the
\*             loop over the proceed buttons), "final" (the completion check
\*             after that loop), "notify" (about to send the success
\*             notification), "caller" (returned to its caller), "done"
\*   attempt - the loop variable attempt of attempt_bulletproof_booking, from 0
\*   flow_attempt - iterations of the loop over the proceed buttons done
\*   result  - the boolean returned
\*   cardTries   - history: times the card step ran for this candidate
\*   applyPasses - history: passes over the apply selectors for this candidate
\*   applyFailed - history: the apply step used up its passes without a click
\*   modal   - history: how the last modal step went
\*   clicks  - history: proceed buttons clicked in the current flow
\*   unchecked - history: a proceed button was clicked and no completion check
\*             has run since
\*   seen    - history: a completion check found a success indicator
\*   clickedAfterSeen - history: a proceed button was clicked after that
\*   completed - history: the flow ended with the booking made
\*   notified - history: how the success notification went ("none" while not sent)
\*   counted - history: the caller took the operation as a booking
\*   success_counted, failure_counted - history: what the call added to
\*             booking_success_count and to booking_failure_count
\*   failure_notified - history: the call reached its failure notification
IdleBk ==
    [fn |-> "none", pc |-> "idle", attempt |-> 0, flow_attempt |-> 0,
     result |-> FALSE, cardTries |-> 0, applyPasses |-> 0, applyFailed |-> FALSE,
     modal |-> "none", clicks |-> 0, unchecked |-> FALSE, seen |-> FALSE,
     clickedAfterSeen |-> FALSE, completed |-> FALSE, notified |-> "none",
     counted |-> FALSE, success_counted |-> 0, failure_counted |-> 0,
     failure_notified |-> FALSE]

\* No notifier call in progress.
\*   entry   - the entry point called
\*   pc      - "idle", "post" (about to call requests.post), "fallback" (about
\*             to call _send_fallback_notification), "returned", "raised"
\*   webhook - a webhook URL is configured
\*   max_retries - the argument max_retries of send
\*   attempt - the loop variable attempt of send, from 0
\*   posts   - history: calls of requests.post made
\*   fallback - history: "none", "written" (appended to discord_failures.log)
\*             or "failed" (the append raised and was caught)
\*   result  - what send returned
\*   last    - history: how the last requests.post went
IdleNt ==
    [entry |-> "none", pc |-> "idle", webhook |-> FALSE, max_retries |-> 0,
     attempt |-> 0, posts |-> 0, fallback |-> "none", result |-> FALSE,
     last |-> "none"]

\* The command "run" has not been started.
\*   pc      - "idle", "config" (about to load the configuration), "driver"
\*             (about to open the browser), "session" (about to call
\*             ensure_authenticated_session), "monitor" (about to call
\*             start_monitoring, or inside it), "exited"
\*   exit_code - exit code of the process once exited
\*   failure - history: "none", "config" (the configuration file could not be
\*             loaded), "driver", "session"
IdleCli == [pc |-> "idle", exit_code |-> 0, failure |-> "none"]

\* No cycle of the enhanced monitor over the cities in progress.
\*   pc      - "idle", "city" (head of the loop over the cities), "extract"
\*             (_handle_shift_processing is about to run), "booking" (inside the
\*             loop of _attempt_immediate_booking), "returned" (the workflow has
\*             returned and start_monitoring has counted its result)
\*   fast_mode, enabled, per_cycle_limit - monitoring.fast_mode, booking.enabled,
\*             booking.per_cycle_limit
\*   nCities - number of configured cities
\*   i       - position of the city the loop is at, from 1
\*   pass    - _handle_shift_processing call of the city: 1 (fast mode, jobs seen
\*             by the quick check, before the filter) or 2 (after the filter)
\*   jobsLeft, jobIdx - jobs of the report not yet iterated; position in the
\*             report of the job attempted last
\*   daily_booking_count - the attribute start_monitoring counts in
\*   result  - what _run_enhanced_workflow returned
\*   order   - history: the cities whose iteration began, in that order
\*   booked  - history: calls of book_slot of the cycle that returned True
\*   cityBooked - history: those of the city the loop is at
\*   bookedCities - history: the cities with such a call
IdleCw ==
    [pc |-> "idle", fast_mode |-> FALSE, enabled |-> FALSE, per_cycle_limit |-> 0,
     nCities |-> 0, i |-> 0, pass |-> 0, jobsLeft |-> 0, jobIdx |-> 0,
     daily_booking_count |-> 0, result |-> "none", order |-> <<>>, booked |-> 0,
     cityBooked |-> 0, bookedCities |-> {}]

Init ==
    /\ today = 0
    /\ store = AbsentStore
    /\ handler = "none"
    /\ state = NoState
    /\ raised = FALSE
    /\ lastOp = Op("init", NoId)
    /\ lastWrite = "none"
    /\ marked = {}
    /\ proc = "down"
    /\ wf = IdleWf
    /\ bp = IdleBp
    /\ em = IdleEm
    /\ ex = IdleEx
    /\ bk = IdleBk
    /\ nt = IdleNt
    /\ cli = IdleCli
    /\ cw = IdleCw

\* ------------------------------------------------- ledger operations (API)
\* ShiftBookingState(state_file)
Construct(w) ==
    LET r == ConstructResult(store, today, w) IN
    /\ handler' = r.handler
    /\ state' = r.state
    /\ store' = r.store
    /\ raised' = r.raised
    /\ lastWrite' = r.write
    /\ lastOp' = Op("construct", NoId)
    /\ UNCHANGED <<today, marked, proc, wf>>
    /\ UNCHANGED loopVars

\* state.mark_as_booked(id)
MarkAsBooked(id, w) ==
    LET r == MarkResult(store, state, id, w) IN
    /\ handler = "ready"
    /\ state.daily_count < MaxCount
    /\ handler' = r.handler
    /\ state' = r.state
    /\ store' = r.store
    /\ lastWrite' = w
    /\ lastOp' = Op("mark", id)
    /\ marked' = marked \cup {id}
    /\ UNCHANGED <<today, raised, proc, wf>>
    /\ UNCHANGED loopVars

\* the calendar day changes; nothing in the program runs
Midnight ==
    /\ today < MaxDay
    /\ today' = today + 1
    /\ marked' = {}
    /\ lastOp' = Op("midnight", NoId)
    /\ lastWrite' = "none"
    /\ UNCHANGED <<store, handler, state, raised, proc, wf>>
    /\ UNCHANGED loopVars

\* the state file is damaged or made unreadable from outside the program
Damage(kind) ==
    /\ store.kind # kind
    /\ store' = CorruptStore(kind)
    /\ lastOp' = Op("damage", NoId)
    /\ lastWrite' = "none"
    /\ UNCHANGED <<today, handler, state, raised, marked, proc, wf>>
    /\ UNCHANGED loopVars

NextLedger ==
    \/ \E w \in WriteOutcomes : Construct(w)
    \/ \E id \in Ids, w \in WriteOutcomes : MarkAsBooked(id, w)
    \/ Midnight
    \/ \E kind \in CorruptKinds : Damage(kind)

\* the ledger driven through its public operations
SpecLedger == Init /\ [][NextLedger]_vars

\* --------------------------------------------- the booking workflow (enhanced)
\* what a job card can carry: a job id, or NoId when _extract_slot_info
\* cannot read the card
CardIds == Ids \cup {NoId}

\* the job cards a shifts page can show, first to last
Pages == UNION {[1..n -> CardIds] : n \in 0..MaxCards}

\* discover_available_slots, "for idx, card in enumerate(cards)" from card k on:
\* a card becomes a slot unless it is unreadable or its id is already booked
RECURSIVE SlotsFrom(_, _, _)
SlotsFrom(page, k, st) ==
    IF k > Len(page) THEN <<>>
    ELSE LET rest == SlotsFrom(page, k + 1, st) IN
         IF page[k] # NoId /\ ~is_already_booked(st, page[k])
         THEN <<[job_id |-> page[k], card_index |-> k]>> \o rest
         ELSE rest

\* attempts book_slot makes to find and click an apply button
max_apply_attempts == 3

\* book_slot up to the apply click: the step at which it returns False, or
\* "completed" when it goes on to the Next/Submit buttons and mark_as_booked.
\*   card_index  - slot.card_index, counted from 1
\*   nCards      - job cards found on the page now
\*   cardClicked - some click method worked on the card
\*   applyAt     - the attempt (1..max_apply_attempts) whose click worked, 0 if none
\*   exc         - an exception reached the outer except
book_slot(card_index, nCards, cardClicked, applyAt, exc) ==
    IF exc THEN "exception"
    ELSE IF nCards = 0 THEN "no_cards"
    ELSE IF card_index > nCards THEN "index"
    ELSE IF ~cardClicked THEN "card_click"
    ELSE IF applyAt = 0 THEN "apply"
    ELSE "completed"

\* the ways book_slot can end
BookSlotEnds == {"exception", "no_cards", "index", "card_click", "apply", "completed"}

\* how book_slot can end for a slot of each card_index, over every behaviour
\* of the page
BookSlotOutcomes ==
    [card_index \in 1..MaxCards |->
        {book_slot(card_index, nCards, cardClicked, applyAt, exc) :
            nCards \in 0..MaxCards, cardClicked \in BOOLEAN,
            applyAt \in 0..max_apply_attempts, exc \in BOOLEAN}]

\* the file writes a book_slot ending at step can meet
WritesOf(step) == IF step = "completed" THEN WriteOutcomes ELSE {"none"}

\* what the page can show after the Next/Submit clicks of a book_slot ending at
\* step: a success indicator or none
IndicatorsOf(step) == IF step = "completed" THEN BOOLEAN ELSE {FALSE}

\* _attempt_immediate_booking up to the loop: the handler is created on first use
BeginWorkflow(n, w) ==
    /\ proc = "enhanced"
    /\ wf.pc = "idle"
    /\ lastOp' = Op("begin", NoId)
    /\ UNCHANGED <<today, marked>>
    /\ UNCHANGED loopVars
    /\ IF handler = "ready"
       THEN /\ wf' = [IdleWf EXCEPT !.pc = "discover", !.jobsLeft = n,
                                    !.pre = state.booked_today]
            /\ lastWrite' = "none"
            /\ UNCHANGED <<store, handler, state, raised, proc>>
       ELSE LET r == ConstructResult(store, today, w) IN
            /\ handler' = r.handler
            /\ state' = r.state
            /\ store' = r.store
            /\ raised' = r.raised
            /\ lastWrite' = r.write
            /\ proc' = IF r.write = "crash" THEN "down" ELSE proc
            /\ wf' = IF r.write = "crash" THEN IdleWf
                     ELSE IF r.raised THEN Returned(IdleWf, "failed", NoSlot)
                     ELSE [IdleWf EXCEPT !.pc = "discover", !.jobsLeft = n,
                                         !.pre = r.state.booked_today]

\* one iteration of "for job in jobs": discover_available_slots reads the page
\* and returns its slots
discover_available_slots(page) ==
    /\ proc = "enhanced"
    /\ wf.pc = "discover"
    /\ lastOp' = Op("discover", NoId)
    /\ lastWrite' = "none"
    /\ LET slots == SlotsFrom(page, 1, state)
           left == wf.jobsLeft - 1
           next == [wf EXCEPT !.jobsLeft = left, !.slots = slots,
                              !.found = Len(slots), !.log = <<>>] IN
       wf' = IF slots # <<>> THEN [next EXCEPT !.pc = "book"]
             ELSE IF left = 0 THEN Returned(next, "failed", NoSlot)
             ELSE next
    /\ UNCHANGED <<today, store, handler, state, raised, marked, proc>>
    /\ UNCHANGED loopVars

\* discover_available_slots raises (wait.until or find_elements fails with
\* something other than TimeoutException): the outer except returns False
DiscoverRaises ==
    /\ proc = "enhanced"
    /\ wf.pc = "discover"
    /\ lastOp' = Op("discover", NoId)
    /\ lastWrite' = "none"
    /\ wf' = Returned(wf, "failed", NoSlot)
    /\ UNCHANGED <<today, store, handler, state, raised, marked, proc>>
    /\ UNCHANGED loopVars

\* one iteration of "for slot in slots": book_slot(slot) and what follows it
BookSlot(step, w, seen) ==
    /\ proc = "enhanced"
    /\ wf.pc = "book"
    /\ w \in WritesOf(step)
    /\ seen \in IndicatorsOf(step)
    /\ step \in BookSlotOutcomes[Head(wf.slots).card_index]
    /\ LET slot == Head(wf.slots)
           entry == IF step \in {"apply", "completed"} THEN step ELSE "other"
           logged == [wf EXCEPT !.log = Append(@, entry), !.slots = Tail(@)] IN
       /\ lastOp' = Op("book_slot", slot.job_id)
       /\ IF step = "completed"
          THEN LET r == MarkResult(store, state, slot.job_id, w) IN
               /\ state.daily_count < MaxCount
               /\ handler' = r.handler
               /\ state' = r.state
               /\ store' = r.store
               /\ lastWrite' = w
               /\ marked' = marked \cup {slot.job_id}
               /\ proc' = IF w = "crash" THEN "down" ELSE proc
               /\ wf' = IF w = "crash" THEN IdleWf
                        ELSE [Returned(logged, "booked", slot) EXCEPT !.indicator = seen]
          ELSE /\ lastWrite' = "none"
               /\ wf' = IF logged.slots # <<>> THEN logged
                        ELSE IF wf.jobsLeft = 0 THEN Returned(logged, "failed", NoSlot)
                        ELSE [logged EXCEPT !.pc = "discover", !.found = 0, !.log = <<>>]
               /\ UNCHANGED <<store, handler, state, marked, proc>>
    /\ UNCHANGED <<today, raised>>
    /\ UNCHANGED loopVars

\* --------------------------------------------------- the bulletproof path
\* _process_jobs_bulletproof: attempt_bulletproof_booking(job) for a job of the
\* report; the booking service holds no ShiftBookingState
attempt_bulletproof_booking(id) ==
    /\ proc = "bulletproof"
    /\ lastOp' = Op("bulletproof_booking", id)
    /\ lastWrite' = "none"
    /\ UNCHANGED <<today, store, handler, state, raised, marked, proc, wf>>
    /\ UNCHANGED loopVars

\* ------------------------------------------------------------- the process
\* cli run (EnhancedIntegratedMonitor) or bulletproof_monitor is started
StartProcess(kind) ==
    /\ proc = "down"
    /\ proc' = kind
    /\ lastOp' = Op("start", NoId)
    /\ lastWrite' = "none"
    /\ UNCHANGED <<today, store, handler, state, raised, marked, wf>>
    /\ UNCHANGED loopVars

\* the process ends (stop request, daily limit, kill): its objects are gone
StopProcess ==
    /\ proc # "down"
    /\ proc' = "down"
    /\ handler' = "none"
    /\ state' = NoState
    /\ wf' = IdleWf
    /\ lastOp' = Op("stop", NoId)
    /\ lastWrite' = "none"
    /\ UNCHANGED <<today, store, raised, marked>>
    /\ UNCHANGED loopVars

Next ==
    \/ \E kind \in {"enhanced", "bulletproof"} : StartProcess(kind)
    \/ StopProcess
    \/ Midnight
    \/ \E n \in 1..MaxJobs, w \in WriteOutcomes : BeginWorkflow(n, w)
    \/ \E page \in Pages : discover_available_slots(page)
    \/ DiscoverRaises
    \/ \E step \in BookSlotEnds, w \in WriteOutcomes \cup {"none"}, seen \in BOOLEAN :
            BookSlot(step, w, seen)
    \/ \E id \in Ids : attempt_bulletproof_booking(id)

\* the program: either monitor, restarts and day changes
Spec == Init /\ [][Next]_vars

NextWorkflow ==
    \/ StartProcess("enhanced")
    \/ \E n \in 1..MaxJobs, w \in WriteOutcomes : BeginWorkflow(n, w)
    \/ \E page \in Pages : discover_available_slots(page)
    \/ DiscoverRaises
    \/ \E step \in BookSlotEnds, w \in WriteOutcomes \cup {"none"}, seen \in BOOLEAN :
            BookSlot(step, w, seen)

\* one run of the enhanced monitor: booking workflow invocations, one after another
SpecWorkflow == Init /\ [][NextWorkflow]_vars

\* ------------------------------------------------- the bulletproof monitor
\* consecutive failed cycles that trigger _enter_recovery_mode
max_failures == 10

\* seconds _enter_recovery_mode sleeps
recovery_delay == 120

\* seconds _enter_recovery_mode sleeps instead when its notification raised
fallback_recovery_delay == 60

Min(a, b) == IF a < b THEN a ELSE b

\* time.sleep(1) inside a monitor loop: a second passes, counted once running
\* is false
SleepOneSecond(m) ==
    [m EXCEPT !.left = IF @ > 0 THEN @ - 1 ELSE 0,
              !.late = IF ~m.running THEN Min(@ + 1, MaxLate) ELSE @]

\* the job _process_jobs_bulletproof is at, named by its position from the end
\* of the list
JobAt(b) == b.jobsLeft

\* _run_monitoring_loop after _enter_recovery_mode or without it: the cycle
\* summary, then "if self.running: self._wait_for_next_cycle()"
AfterRecovery(b) ==
    [b EXCEPT !.pc = IF b.running THEN "wait" ELSE "top", !.i = 0]

\* variant: recovery one failure late
AfterCycle_late(b, cycle_result) ==
    LET failures == IF cycle_result THEN 0 ELSE b.consecutive_failures + 1
        counted == [b EXCEPT !.consecutive_failures = failures] IN
    IF failures > max_failures THEN [counted EXCEPT !.pc = "recover"]
    ELSE AfterRecovery(counted)

\* _run_monitoring_loop from the return of _run_bulletproof_cycle on
AfterCycle(b, cycle_result) ==
    LET failures == IF cycle_result THEN 0 ELSE b.consecutive_failures + 1
        counted == [b EXCEPT !.consecutive_failures = failures] IN
    IF failures >= max_failures THEN [counted EXCEPT !.pc = "recover"]
    ELSE AfterRecovery(counted)

\* BulletproofMonitor(config) and start_bulletproof_monitoring up to
\* _initialize_notifications and _send_startup_notification: running is False
\* as __init__ left it, and the signal handlers are installed
start_bulletproof_monitoring(daily_limit, per_cycle_limit) ==
    /\ bp.pc = "idle"
    /\ em.pc = "idle"
    /\ bp' = [IdleBp EXCEPT !.pc = "init", !.daily_limit = daily_limit,
                            !.per_cycle_limit = per_cycle_limit]
    /\ UNCHANGED <<bookingVars, em, ex, svcVars>>

\* start_bulletproof_monitoring after the notifications: "self.running = True"
\* and the call of _run_monitoring_loop
StartLoop ==
    /\ bp.pc = "init"
    /\ bp' = [bp EXCEPT !.pc = "top", !.running = TRUE]
    /\ UNCHANGED <<bookingVars, em, ex, svcVars>>

\* "while self.running:" and "self.cycle_count += 1"
run_monitoring_loop ==
    /\ bp.pc = "top"
    /\ IF bp.running
       THEN /\ bp.cycle_count < MaxCycles
            /\ bp' = [bp EXCEPT !.cycle_count = @ + 1, !.pc = "cycle"]
       ELSE bp' = [bp EXCEPT !.pc = "exited"]
    /\ UNCHANGED <<bookingVars, em, ex, svcVars>>

\* the ways _run_bulletproof_cycle can go up to the job loop
CycleOutcomes == {"exception", "session_invalid", "search_failed", "searched"}

\* "with SB(...) as sb" is left: the browser of the cycle is closed, and what
\* was bound to it stays bound to it
BrowserClosed(b) ==
    [b EXCEPT !.main_monitor = IF @ = "current" THEN "stale" ELSE @,
              !.booking_service = IF @ = "current" THEN "stale" ELSE @]

\* _run_bulletproof_cycle from "self.booking_service = ..." to the search:
\* the booking service is made anew, the main monitor only when there is none
ComponentsBound(b, outcome) ==
    LET monitor == IF outcome = "session_invalid" THEN b.main_monitor
                   ELSE IF b.main_monitor = "none" THEN "current"
                   ELSE b.main_monitor IN
    [b EXCEPT !.booking_service = "current", !.main_monitor = monitor,
              !.searchedWith = IF outcome = "session_invalid" THEN @ ELSE monitor]

\* the locals of a cycle that begins and ends one of four ways
CycleSeen(b, outcome, n) ==
    LET seen == [b EXCEPT !.allRaised = @ /\ outcome = "exception",
                          !.last = outcome, !.bookings_made = 0,
                          !.found = IF outcome = "searched" THEN n ELSE 0,
                          !.attempts = 0,
                          !.erred = outcome # "searched"] IN
    IF outcome = "exception" THEN seen ELSE ComponentsBound(seen, outcome)

\* variant: a search that finds nothing counts as a failed cycle
run_bulletproof_cycle_strict(outcome, n) ==
    /\ bp.pc = "cycle"
    /\ LET seen == CycleSeen(bp, outcome, n) IN
       bp' = IF outcome \in {"exception", "session_invalid"} \/ seen.found = 0
             THEN AfterCycle(BrowserClosed([seen EXCEPT !.oneEach = FALSE]), FALSE)
             ELSE [seen EXCEPT !.pc = "jobs", !.jobsLeft = n]
    /\ UNCHANGED <<bookingVars, em, ex, svcVars>>

\* _run_bulletproof_cycle up to the job loop: an exception when the browser is
\* opened (caught, False), a session that does not validate (False), a search
\* whose navigation or extraction failed (caught inside, an empty list), or a
\* search that found n jobs
run_bulletproof_cycle(outcome, n) ==
    /\ bp.pc = "cycle"
    /\ LET seen == CycleSeen(bp, outcome, n) IN
       bp' = IF outcome \in {"exception", "session_invalid"}
             THEN AfterCycle(BrowserClosed([seen EXCEPT !.oneEach = FALSE]), FALSE)
             ELSE IF seen.found = 0
             THEN AfterCycle(BrowserClosed([seen EXCEPT !.oneEach = FALSE]), TRUE)
             ELSE [seen EXCEPT !.pc = "jobs", !.jobsLeft = n]
    /\ UNCHANGED <<bookingVars, em, ex, svcVars>>

\* the loop of _process_jobs_bulletproof has a job left and has not reached the
\* per-cycle limit
InJobLoop(b) == b.jobsLeft > 0 /\ b.bookings_made < b.per_cycle_limit

\* one iteration of the loop of _process_jobs_bulletproof that reaches
\* attempt_bulletproof_booking; res is "booked" (True), "failed" (False) or
\* "raised" (caught, continue)
process_jobs_bulletproof(res) ==
    /\ bp.pc = "jobs"
    /\ InJobLoop(bp)
    /\ bp.total_bookings < bp.daily_limit
    /\ bp' = [bp EXCEPT !.jobsLeft = @ - 1, !.attempts = @ + 1,
                        !.erred = @ \/ res = "raised",
                        !.bookings_made = IF res = "booked" THEN @ + 1 ELSE @]
    /\ UNCHANGED <<bookingVars, em, ex, svcVars>>

\* the loop of _process_jobs_bulletproof ends (no job left, per-cycle limit, or
\* daily limit, which clears running) and _run_bulletproof_cycle returns True
ProcessJobsReturns ==
    /\ bp.pc = "jobs"
    /\ ~(InJobLoop(bp) /\ bp.total_bookings < bp.daily_limit)
    /\ LET done == [bp EXCEPT !.running = IF InJobLoop(bp) THEN FALSE ELSE @,
                              !.total_bookings = @ + bp.bookings_made,
                              !.oneEach = @ /\ bp.bookings_made = 1,
                              !.bookings_made = 0, !.jobsLeft = 0] IN
       bp' = AfterCycle(BrowserClosed(done), TRUE)
    /\ UNCHANGED <<bookingVars, em, ex, svcVars>>

\* _enter_recovery_mode up to its sleep: the notification, which may raise and
\* then leads to the fallback sleep
enter_recovery_mode(notifier_raises) ==
    /\ bp.pc = "recover"
    /\ bp' = [bp EXCEPT !.pc = "recovery", !.recoveries = @ + 1,
                        !.afterRecovery = IF notifier_raises THEN "fallback"
                                          ELSE "reset",
                        !.left = IF notifier_raises THEN fallback_recovery_delay
                                 ELSE recovery_delay]
    /\ UNCHANGED <<bookingVars, em, ex, svcVars>>

\* a second of the sleep of _enter_recovery_mode passes
RecoverySleep ==
    /\ bp.pc = "recovery"
    /\ bp.left > 0
    /\ bp' = SleepOneSecond(bp)
    /\ UNCHANGED <<bookingVars, em, ex, svcVars>>

\* _enter_recovery_mode after its sleep: the components are reset to None
\* after time.sleep(120), not in the except branch after time.sleep(60)
ComponentsReset(b) ==
    IF b.afterRecovery = "reset"
    THEN [b EXCEPT !.main_monitor = "none", !.booking_service = "none"]
    ELSE b

\* _enter_recovery_mode returns: "consecutive_failures = 0" and on to the wait
RecoveryReturns ==
    /\ bp.pc = "recovery"
    /\ bp.left = 0
    /\ bp' = AfterRecovery([ComponentsReset(bp) EXCEPT !.consecutive_failures = 0])
    /\ UNCHANGED <<bookingVars, em, ex, svcVars>>

\* _wait_for_next_cycle, the head of "for i in range(wait_time)" and the test
\* of self.running
wait_for_next_cycle ==
    /\ bp.pc = "wait"
    /\ bp' = IF bp.i < CheckInterval /\ bp.running
             THEN [bp EXCEPT !.pc = "sleep", !.i = @ + 1]
             ELSE [bp EXCEPT !.pc = "top"]
    /\ UNCHANGED <<bookingVars, em, ex, svcVars>>

\* _wait_for_next_cycle, time.sleep(1)
WaitSleep ==
    /\ bp.pc = "sleep"
    /\ bp' = [SleepOneSecond(bp) EXCEPT !.pc = "wait"]
    /\ UNCHANGED <<bookingVars, em, ex, svcVars>>

\* _signal_handler: SIGINT or SIGTERM arrives while the loop runs
signal_handler ==
    /\ bp.pc \notin {"idle", "exited"}
    /\ ~bp.stopped
    /\ bp' = [bp EXCEPT !.running = FALSE, !.stopped = TRUE]
    /\ UNCHANGED <<bookingVars, em, ex, svcVars>>

\* --------------------------------------------------- the enhanced monitor
\* the ways _run_enhanced_workflow can end
WorkflowResults == {"BOOKING_SUCCESS", "NO_BOOKING", "raised"}

\* start_monitoring from the end of the try body of a cycle on:
\* "if self.running:" the summary and time.sleep(check_interval)
AfterWorkflow(m) ==
    IF m.running THEN [m EXCEPT !.pc = "sleep", !.left = CheckInterval]
    ELSE [m EXCEPT !.pc = "top"]

\* the while loop of start_monitoring is left: "finally: self.stop_monitoring()"
LoopExit(m) == [m EXCEPT !.pc = "exited", !.running = FALSE]

\* start_monitoring up to the loop; max_cycles 0 stands for None
start_monitoring(daily_limit, max_cycles) ==
    /\ em.pc = "idle"
    /\ bp.pc = "idle"
    /\ em' = [IdleEm EXCEPT !.pc = "top", !.running = TRUE,
                            !.daily_limit = daily_limit, !.max_cycles = max_cycles]
    /\ UNCHANGED <<bookingVars, bp, ex, svcVars>>

\* "while self.running and (max_cycles is None or cycle < max_cycles):" and
\* "cycle += 1"
MonitoringLoop ==
    /\ em.pc = "top"
    /\ IF em.running /\ (em.max_cycles = 0 \/ em.cycle < em.max_cycles)
       THEN /\ em.cycle < MaxCycles
            /\ em' = [em EXCEPT !.cycle = @ + 1, !.pc = "workflow"]
       ELSE em' = LoopExit(em)
    /\ UNCHANGED <<bookingVars, bp, ex, svcVars>>

\* variant: an exception of the workflow leaves the loop
run_enhanced_workflow_fatal(workflow_result) ==
    /\ em.pc = "workflow"
    /\ LET ended == [em EXCEPT !.last = workflow_result] IN
       em' = IF workflow_result = "raised" THEN LoopExit(ended)
             ELSE AfterWorkflow(ended)
    /\ UNCHANGED <<bookingVars, bp, ex, svcVars>>

\* one cycle of start_monitoring: _run_enhanced_workflow and what follows it
run_enhanced_workflow(workflow_result) ==
    /\ em.pc = "workflow"
    /\ LET ended == [em EXCEPT !.last = workflow_result] IN
       em' = IF workflow_result = "raised"
             THEN [ended EXCEPT !.pc = "retry_sleep", !.left = ErrorRetryDelay]
             ELSE IF workflow_result = "BOOKING_SUCCESS"
             THEN LET counted == [ended EXCEPT !.daily_booking_count = @ + 1] IN
                  IF counted.daily_booking_count >= counted.daily_limit
                  THEN LoopExit(counted)
                  ELSE AfterWorkflow(counted)
             ELSE AfterWorkflow(ended)
    /\ UNCHANGED <<bookingVars, bp, ex, svcVars>>

\* a second of time.sleep(check_interval) or time.sleep(error_retry_delay) passes
MonitoringSleep ==
    /\ em.pc \in {"sleep", "retry_sleep"}
    /\ em.left > 0
    /\ em' = SleepOneSecond(em)
    /\ UNCHANGED <<bookingVars, bp, ex, svcVars>>

\* the sleep is over: the loop is back at its test
SleepReturns ==
    /\ em.pc \in {"sleep", "retry_sleep"}
    /\ em.left = 0
    /\ em' = [em EXCEPT !.pc = "top"]
    /\ UNCHANGED <<bookingVars, bp, ex, svcVars>>

\* stop_monitoring called from outside the loop while it runs
stop_monitoring ==
    /\ em.pc \notin {"idle", "exited"}
    /\ ~em.stopped
    /\ em' = [em EXCEPT !.running = FALSE, !.stopped = TRUE]
    /\ UNCHANGED <<bookingVars, bp, ex, svcVars>>

\* ------------------------------------------------ the monitors, either one
NextMonitors ==
    \/ \E daily_limit \in 1..MaxDailyLimit, per_cycle_limit \in 1..MaxPerCycleLimit :
            start_bulletproof_monitoring(daily_limit, per_cycle_limit)
    \/ StartLoop
    \/ run_monitoring_loop
    \/ \E outcome \in CycleOutcomes, n \in 0..MaxReportJobs :
            run_bulletproof_cycle(outcome, n)
    \/ \E res \in {"booked", "failed", "raised"} : process_jobs_bulletproof(res)
    \/ ProcessJobsReturns
    \/ \E notifier_raises \in BOOLEAN : enter_recovery_mode(notifier_raises)
    \/ RecoverySleep
    \/ RecoveryReturns
    \/ wait_for_next_cycle
    \/ WaitSleep
    \/ signal_handler
    \/ \E daily_limit \in 1..MaxDailyLimit, max_cycles \in 0..MaxMaxCycles :
            start_monitoring(daily_limit, max_cycles)
    \/ MonitoringLoop
    \/ \E workflow_result \in WorkflowResults : run_enhanced_workflow(workflow_result)
    \/ MonitoringSleep
    \/ SleepReturns
    \/ stop_monitoring

\* one run of either monitor loop, with stop requests from outside
SpecMonitors == Init /\ [][NextMonitors]_vars

\* ------------------------------------------------------ the action executor
\* BulletproofBookingService.max_click_retries
max_click_retries == 3

\* what resolving one selector and activating the control can meet:
\*   "missing"      - nothing found (NoSuchElementException, TimeoutException,
\*                    an empty list)
\*   "hidden"       - found, but not displayed or not enabled
\*   "clicked"      - the click worked
\*   "intercepted"  - click raised ElementClickInterceptedException
\*   "stale"        - click raised StaleElementReferenceException
\*   "driver_error" - click raised another WebDriverException
ProbeKinds == {"missing", "hidden", "clicked", "intercepted", "stale", "driver_error"}

\* the probes in which no selector yields a visible, enabled control
Unresolved == {"missing", "hidden"}

\* the click operations modelled
ClickOps == {"click_with_retry", "click_apply_button_bulletproof", "safe_click",
             "shift_booking_click_with_retry", "execute_click_strategy",
             "click_job_card_bulletproof"}

\* utils.selenium_helpers.click_with_retry, the body of "for selector in
\* selectors": "true" (return True), "next" (go on) or "raise"; js_ok says
\* whether the JavaScript click works
click_with_retry(kind, js_ok) ==
    IF kind = "clicked" THEN "true"
    ELSE IF kind \in {"intercepted", "stale"} /\ js_ok THEN "true"
    ELSE "next"

\* BulletproofBookingService._click_apply_button_bulletproof, the body of
\* "for selector in apply_selectors"
click_apply_button_bulletproof(kind, js_ok) ==
    IF kind = "clicked" THEN "true"
    ELSE IF kind \notin Unresolved /\ js_ok THEN "true"
    ELSE "next"

\* JobApplicationHandler.safe_click, the body of "for i, selector in
\* enumerate(all_selectors)"
safe_click(kind, js_ok) ==
    IF kind = "clicked" THEN "true"
    ELSE IF kind \notin Unresolved /\ js_ok THEN "true"
    ELSE "next"

\* ShiftBooking.click_with_retry, the body of "for attempt in range(max_retries)":
\* only TimeoutException and NoSuchElementException are caught
shift_booking_click_with_retry(kind, js_ok) ==
    IF kind = "clicked" THEN "true"
    ELSE IF kind \in Unresolved THEN "next"
    ELSE "raise"

\* BulletproofBookingService._execute_click_strategy: one try, every Exception
\* caught
execute_click_strategy(kind, js_ok) ==
    IF kind = "clicked" THEN "true" ELSE "next"

\* BulletproofBookingService._click_job_card_bulletproof, the body of "for
\* selector in card_selectors": the first element found is the target, whether
\* displayed or not; js_ok says whether one of the click strategies after
\* direct_click works
click_job_card_bulletproof(kind, js_ok) ==
    IF kind = "missing" THEN "next"
    ELSE IF kind = "clicked" THEN "true"
    ELSE IF js_ok THEN "true"
    ELSE "next"

\* the body of the loop of operation fn
TryOf(fn, kind, js_ok) ==
    CASE fn = "click_with_retry" -> click_with_retry(kind, js_ok)
      [] fn = "click_apply_button_bulletproof" -> click_apply_button_bulletproof(kind, js_ok)
      [] fn = "safe_click" -> safe_click(kind, js_ok)
      [] fn = "shift_booking_click_with_retry" -> shift_booking_click_with_retry(kind, js_ok)
      [] fn = "click_job_card_bulletproof" -> click_job_card_bulletproof(kind, js_ok)
      [] OTHER -> execute_click_strategy(kind, js_ok)

\* selectors operation fn walks through in one pass
SelectorsOf(fn) ==
    IF fn \in {"shift_booking_click_with_retry", "execute_click_strategy"} THEN 1
    ELSE NumSelectors

\* the attempt budgets operation fn can be called with
BudgetsOf(fn) ==
    CASE fn = "click_apply_button_bulletproof" -> {max_click_retries}
      [] fn = "execute_click_strategy" -> {1}
      [] fn = "click_job_card_bulletproof" -> {1}
      [] OTHER -> 1..MaxBudget

\* variant: one pass more than the budget
NextSelector_extra(e) ==
    IF e.sel < SelectorsOf(e.fn) THEN [e EXCEPT !.sel = @ + 1]
    ELSE IF e.attempt < e.budget
    THEN [e EXCEPT !.passes = @ + 1, !.attempt = @ + 1, !.sel = 1]
    ELSE [e EXCEPT !.passes = @ + 1, !.pc = "returned", !.result = FALSE]

\* the loops "for attempt in range(budget): for selector in selectors" move on
\* after a selector that did not lead to a click; after the last pass the
\* operation returns False
NextSelector(e) ==
    IF e.sel < SelectorsOf(e.fn) THEN [e EXCEPT !.sel = @ + 1]
    ELSE IF e.attempt + 1 < e.budget
    THEN [e EXCEPT !.passes = @ + 1, !.attempt = @ + 1, !.sel = 1]
    ELSE [e EXCEPT !.passes = @ + 1, !.pc = "returned", !.result = FALSE]

\* a click operation is called
ClickCall(fn, budget) ==
    /\ ex.pc # "probe"
    /\ budget \in BudgetsOf(fn)
    /\ ex' = [IdleEx EXCEPT !.fn = fn, !.pc = "probe", !.budget = budget]
    /\ UNCHANGED <<bookingVars, bp, em, svcVars>>

\* the operation resolves its next selector and tries to click
ClickTry(kind, js_ok) ==
    /\ ex.pc = "probe"
    /\ LET seen == [ex EXCEPT !.resolved = @ \/ kind \notin Unresolved]
           step == TryOf(ex.fn, kind, js_ok) IN
       ex' = IF step = "true"
             THEN [seen EXCEPT !.pc = "returned", !.result = TRUE,
                               !.activated = ex.sel,
                               !.activatedKind = IF kind = "hidden" THEN "hidden"
                                                 ELSE "ready"]
             ELSE IF step = "raise" THEN [seen EXCEPT !.pc = "raised"]
             ELSE NextSelector(seen)
    /\ UNCHANGED <<bookingVars, bp, em, svcVars>>

NextExecutor ==
    \/ \E fn \in ClickOps, budget \in 1..MaxBudget : ClickCall(fn, budget)
    \/ \E kind \in ProbeKinds, js_ok \in BOOLEAN : ClickTry(kind, js_ok)

\* calls of the click operations, one after another
SpecExecutor == Init /\ [][NextExecutor]_vars

\* ------------------------------------------------- the booking operation
\* BulletproofBookingService.max_booking_retries
max_booking_retries == 5

\* _complete_application_flow_bulletproof: iterations of its loop
max_flow_attempts == 5

\* book_slot: entries of next_button_texts
next_button_texts == 5

BookingOps == {"attempt_bulletproof_booking", "book_slot"}

\* a new try of attempt_bulletproof_booking starts at the card
NextAttempt(b) ==
    [b EXCEPT !.attempt = @ + 1, !.pc = "card", !.flow_attempt = 0, !.clicks = 0,
              !.unchecked = FALSE, !.seen = FALSE]

\* a step failed. attempt_bulletproof_booking: "if attempt <
\* max_booking_retries - 1: continue", else it returns False; book_slot returns
\* False
StepFailed(b) ==
    IF b.fn = "attempt_bulletproof_booking" /\ b.attempt < max_booking_retries - 1
    THEN NextAttempt(b)
    ELSE [b EXCEPT !.pc = "caller", !.result = FALSE]

\* an exception left a step. attempt_bulletproof_booking: the except branch
\* continues while attempts are left; after the last one the loop ends and
\* the code below it runs: "self.booking_failure_count += 1", the failure
\* notification, "return False". book_slot catches it and returns False
StepRaised(b) ==
    IF b.fn # "attempt_bulletproof_booking" THEN StepFailed(b)
    ELSE IF b.attempt < max_booking_retries - 1 THEN NextAttempt(b)
    ELSE [b EXCEPT !.pc = "caller", !.result = FALSE,
                   !.failure_counted = @ + 1, !.failure_notified = TRUE]

\* the completion flow saw the booking made and goes on to the success
\* notification; attempt_bulletproof_booking counts the success first
FlowSucceeded(b) ==
    [b EXCEPT !.pc = "notify", !.completed = TRUE,
              !.success_counted =
                    IF b.fn = "attempt_bulletproof_booking" THEN @ + 1 ELSE @]

\* an iteration of the loop over the proceed buttons is over
NextFlowAttempt(b, last) ==
    IF b.flow_attempt + 1 < last THEN [b EXCEPT !.flow_attempt = @ + 1]
    ELSE [b EXCEPT !.flow_attempt = @ + 1, !.pc = "final"]

\* _process_jobs_bulletproof or _attempt_immediate_booking calls the booking
\* operation for a candidate
BookingCall(fn) ==
    /\ bk.pc \in {"idle", "done"}
    /\ bk' = [IdleBk EXCEPT !.fn = fn, !.pc = "card"]
    /\ UNCHANGED <<bookingVars, bp, em, ex, nt, cli, cw>>

\* step 1: _click_job_card_bulletproof, or the card part of book_slot; out is
\* "clicked", "failed" or "raised"
ClickCard(out) ==
    /\ bk.pc = "card"
    /\ LET tried == [bk EXCEPT !.cardTries = @ + 1] IN
       bk' = IF out = "clicked" THEN [tried EXCEPT !.pc = "modals"]
             ELSE IF out = "raised" THEN StepRaised(tried)
             ELSE StepFailed(tried)
    /\ UNCHANGED <<bookingVars, bp, em, ex, nt, cli, cw>>

\* variant: an exception inside the modal step fails the attempt
HandleModals_fatal(out) ==
    /\ bk.pc = "modals"
    /\ LET after == [bk EXCEPT !.modal = out] IN
       bk' = IF out = "exception" THEN StepFailed(after)
             ELSE [after EXCEPT !.pc = "apply"]
    /\ UNCHANGED <<bookingVars, bp, em, ex, nt, cli, cw>>

\* step 2: _handle_booking_modals_bulletproof, or the dropdown part of
\* book_slot; out is "none" (nothing found), "handled", "unhandled" (found, no
\* option chosen) or "exception" (caught inside the step)
HandleModals(out) ==
    /\ bk.pc = "modals"
    /\ bk' = [bk EXCEPT !.modal = out, !.pc = "apply"]
    /\ UNCHANGED <<bookingVars, bp, em, ex, nt, cli, cw>>

\* step 3: _click_apply_button_bulletproof, or the apply part of book_slot;
\* at is the pass whose click worked, 0 if none did
ClickApply(at) ==
    /\ bk.pc = "apply"
    /\ bk' = IF at = 0
             THEN StepFailed([bk EXCEPT !.applyPasses = @ + max_click_retries,
                                        !.applyFailed = TRUE])
             ELSE [bk EXCEPT !.applyPasses = @ + at, !.pc = "flow",
                             !.flow_attempt = 0]
    /\ UNCHANGED <<bookingVars, bp, em, ex, nt, cli, cw>>

\* step 4, one iteration of the loop of _complete_application_flow_bulletproof:
\* the check at the top (seenTop), then a proceed button (out is "clicked",
\* "none" or "raised"), and after "none" one more check (seenAfter)
complete_application_flow_bulletproof(seenTop, out, seenAfter) ==
    /\ bk.pc = "flow"
    /\ bk.fn = "attempt_bulletproof_booking"
    /\ seenTop => (out = "none" /\ ~seenAfter)
    /\ seenAfter => out = "none"
    /\ LET checked == [bk EXCEPT !.unchecked = FALSE] IN
       bk' = IF seenTop \/ seenAfter
             THEN FlowSucceeded([checked EXCEPT !.seen = TRUE])
             ELSE IF out = "clicked"
             THEN NextFlowAttempt([checked EXCEPT !.clicks = @ + 1,
                                                  !.unchecked = TRUE,
                                                  !.clickedAfterSeen = @ \/ bk.seen],
                                  max_flow_attempts)
             ELSE NextFlowAttempt(checked, max_flow_attempts)
    /\ UNCHANGED <<bookingVars, bp, em, ex, nt, cli, cw>>

\* the check after the loop of _complete_application_flow_bulletproof
FinalCompletionCheck(seen) ==
    /\ bk.pc = "final"
    /\ bk.fn = "attempt_bulletproof_booking"
    /\ LET checked == [bk EXCEPT !.unchecked = FALSE, !.seen = seen] IN
       bk' = IF seen THEN FlowSucceeded(checked) ELSE StepFailed(checked)
    /\ UNCHANGED <<bookingVars, bp, em, ex, nt, cli, cw>>

\* book_slot, one iteration of "for text in next_button_texts": a button with
\* this text is clicked or not; nothing is checked
BookSlotProceed(out) ==
    /\ bk.pc = "flow"
    /\ bk.fn = "book_slot"
    /\ bk' = IF out = "clicked"
             THEN NextFlowAttempt([bk EXCEPT !.clicks = @ + 1, !.unchecked = TRUE,
                                             !.clickedAfterSeen = @ \/ bk.seen],
                                  next_button_texts)
             ELSE NextFlowAttempt(bk, next_button_texts)
    /\ UNCHANGED <<bookingVars, bp, em, ex, nt, cli, cw>>

\* book_slot after the loop: mark_as_booked (modelled by MarkAsBooked) and
\* return True
BookSlotReturns ==
    /\ bk.pc = "final"
    /\ bk.fn = "book_slot"
    /\ bk' = FlowSucceeded(bk)
    /\ UNCHANGED <<bookingVars, bp, em, ex, nt, cli, cw>>

\* variant: a notifier that raises turns the booking into a failure
NotifySuccess_downgrading(out) ==
    /\ bk.pc = "notify"
    /\ bk' = [bk EXCEPT !.notified = out, !.pc = "caller", !.result = out # "raised"]
    /\ UNCHANGED <<bookingVars, bp, em, ex, nt, cli, cw>>

\* the success notification: notify_instant_booking_success inside
\* attempt_bulletproof_booking, or _send_booking_notification after book_slot;
\* out is "no_notifier", "ok", "false" (not delivered) or "raised" (caught)
NotifySuccess(out) ==
    /\ bk.pc = "notify"
    /\ bk' = [bk EXCEPT !.notified = out, !.pc = "caller", !.result = TRUE]
    /\ UNCHANGED <<bookingVars, bp, em, ex, nt, cli, cw>>

\* the caller reads the result: _process_jobs_bulletproof counts bookings_made
\* on True, _attempt_immediate_booking returns True on True
CallerTakes ==
    /\ bk.pc = "caller"
    /\ bk' = [bk EXCEPT !.pc = "done", !.counted = bk.result]
    /\ UNCHANGED <<bookingVars, bp, em, ex, nt, cli, cw>>

NotifyOutcomes == {"no_notifier", "ok", "false", "raised"}

NextBooking ==
    \/ \E fn \in BookingOps : BookingCall(fn)
    \/ \E out \in {"clicked", "failed", "raised"} : ClickCard(out)
    \/ \E out \in {"none", "handled", "unhandled", "exception"} : HandleModals(out)
    \/ \E at \in 0..max_click_retries : ClickApply(at)
    \/ \E seenTop \in BOOLEAN, out \in {"clicked", "none", "raised"},
          seenAfter \in BOOLEAN :
            complete_application_flow_bulletproof(seenTop, out, seenAfter)
    \/ \E seen \in BOOLEAN : FinalCompletionCheck(seen)
    \/ \E out \in {"clicked", "none", "raised"} : BookSlotProceed(out)
    \/ BookSlotReturns
    \/ \E out \in NotifyOutcomes : NotifySuccess(out)
    \/ CallerTakes

\* booking operations on one candidate after another
SpecBooking == Init /\ [][NextBooking]_vars

\* ------------------------------------------------------------ the notifier
\* EnhancedDiscordNotifier.send: default of max_retries
default_max_retries == 5

\* the entry points modelled: EnhancedDiscordNotifier.send,
\* EnhancedDiscordNotifier.notify_instant_booking_attempt, DiscordNotifier.send
NotifierEntries == {"send", "notify_instant_booking_attempt", "utils_send"}

\* what the core passes as the job of notify_instant_booking_attempt: an object
\* with the attributes title and location, or the dict of the job report
\* (attempt_bulletproof_booking)
Payloads == {"JobMatch", "dict"}

\* how one requests.post can go: a status code, Retry-After that is no integer,
\* or an exception
TransportOutcomes == {"204", "429", "429_bad_header", "status_other", "timeout",
                      "connection_error", "request_error", "other_exception"}

\* the body of EnhancedDiscordNotifier.send from the webhook test on
send(n, max_retries) ==
    IF ~n.webhook THEN [n EXCEPT !.pc = "returned", !.result = FALSE]
    ELSE IF max_retries = 0 THEN [n EXCEPT !.pc = "fallback"]
    ELSE [n EXCEPT !.pc = "post"]

\* an entry point of the notifier is called
NotifierCall(entry, payload, webhook, max_retries) ==
    /\ nt.pc \in {"idle", "returned", "raised"}
    /\ entry # "notify_instant_booking_attempt" => payload = "JobMatch"
    /\ entry # "send" => max_retries = 0
    /\ LET n == [IdleNt EXCEPT !.entry = entry, !.webhook = webhook] IN
       nt' = CASE entry = "send" ->
                    send([n EXCEPT !.max_retries = max_retries], max_retries)
               [] entry = "notify_instant_booking_attempt" ->
                    IF payload = "dict" THEN [n EXCEPT !.pc = "raised"]
                    ELSE send([n EXCEPT !.max_retries = default_max_retries],
                              default_max_retries)
               [] OTHER -> [n EXCEPT !.max_retries = 1, !.pc = "post"]
    /\ UNCHANGED <<bookingVars, bp, em, ex, bk, cli, cw>>

\* one requests.post and what follows it in the loop of send (in
\* DiscordNotifier.send: the only one)
Post(outcome) ==
    /\ nt.pc = "post"
    /\ ~nt.webhook => outcome = "request_error"
    /\ LET posted == [nt EXCEPT !.posts = @ + 1, !.last = outcome,
                                !.attempt = @ + 1] IN
       nt' = IF nt.entry = "utils_send" THEN [posted EXCEPT !.pc = "returned"]
             ELSE IF outcome = "204"
             THEN [posted EXCEPT !.pc = "returned", !.result = TRUE]
             ELSE IF posted.attempt < nt.max_retries THEN posted
             ELSE [posted EXCEPT !.pc = "fallback"]
    /\ UNCHANGED <<bookingVars, bp, em, ex, bk, cli, cw>>

\* _send_fallback_notification: the message is appended to discord_failures.log,
\* or the append raises and is caught; send returns False
send_fallback_notification(written) ==
    /\ nt.pc = "fallback"
    /\ nt' = [nt EXCEPT !.fallback = IF written THEN "written" ELSE "failed",
                        !.pc = "returned", !.result = FALSE]
    /\ UNCHANGED <<bookingVars, bp, em, ex, bk, cli, cw>>

NextNotifier ==
    \/ \E entry \in NotifierEntries, payload \in Payloads, webhook \in BOOLEAN,
          max_retries \in 0..MaxSendRetries :
            NotifierCall(entry, payload, webhook, max_retries)
    \/ \E outcome \in TransportOutcomes : Post(outcome)
    \/ \E written \in BOOLEAN : send_fallback_notification(written)

\* calls of the notifier, one after another
SpecNotifier == Init /\ [][NextNotifier]_vars

\* ------------------------------------------------------- the command line
\* cli.py run is started, with or without the option --config
run(config_given) ==
    /\ cli.pc = "idle"
    /\ em.pc = "idle"
    /\ bp.pc = "idle"
    /\ cli' = [cli EXCEPT !.pc = IF config_given THEN "config" ELSE "driver"]
    /\ UNCHANGED <<bookingVars, bp, em, ex, bk, nt, cw>>

\* "Load configuration": the file is read, or reading or parsing it raises and
\* the default AppConfig() is used
LoadConfiguration(loaded) ==
    /\ cli.pc = "config"
    /\ cli' = [cli EXCEPT !.pc = "driver",
                          !.failure = IF loaded THEN @ ELSE "config"]
    /\ UNCHANGED <<bookingVars, bp, em, ex, bk, nt, cw>>

\* "with SB(...) as sb": the browser opens, or an exception reaches the outer
\* except and sys.exit(1)
OpenBrowser(opened) ==
    /\ cli.pc = "driver"
    /\ cli' = IF opened THEN [cli EXCEPT !.pc = "session"]
              ELSE [cli EXCEPT !.pc = "exited", !.exit_code = 1, !.failure = "driver"]
    /\ UNCHANGED <<bookingVars, bp, em, ex, bk, nt, cw>>

\* sess.ensure_authenticated_session(sb): True, or False and sys.exit(1)
ensure_authenticated_session(authenticated) ==
    /\ cli.pc = "session"
    /\ cli' = IF authenticated THEN [cli EXCEPT !.pc = "monitor"]
              ELSE [cli EXCEPT !.pc = "exited", !.exit_code = 1, !.failure = "session"]
    /\ UNCHANGED <<bookingVars, bp, em, ex, bk, nt, cw>>

\* monitor.start_monitoring(correlation_id) is called
RunMonitor(daily_limit, max_cycles) ==
    /\ cli.pc = "monitor"
    /\ start_monitoring(daily_limit, max_cycles)

\* start_monitoring returned: the command ends, exit code 0
MonitorReturns ==
    /\ cli.pc = "monitor"
    /\ em.pc = "exited"
    /\ cli' = [cli EXCEPT !.pc = "exited", !.exit_code = 0]
    /\ UNCHANGED <<bookingVars, bp, em, ex, bk, nt, cw>>

NextCli ==
    \/ \E config_given \in BOOLEAN : run(config_given)
    \/ \E loaded \in BOOLEAN : LoadConfiguration(loaded)
    \/ \E opened \in BOOLEAN : OpenBrowser(opened)
    \/ \E authenticated \in BOOLEAN : ensure_authenticated_session(authenticated)
    \/ \E daily_limit \in 1..MaxDailyLimit, max_cycles \in 0..MaxMaxCycles :
            RunMonitor(daily_limit, max_cycles)
    \/ MonitoringLoop
    \/ \E workflow_result \in WorkflowResults : run_enhanced_workflow(workflow_result)
    \/ MonitoringSleep
    \/ SleepReturns
    \/ stop_monitoring
    \/ MonitorReturns

\* one run of the command
SpecCli == Init /\ [][NextCli]_vars

\* ------------------------------------- a cycle of the enhanced monitor
\* "for job in jobs[:10]" of _process_jobs_bulletproof
jobs_cap == 10

\* variant: _handle_shift_processing reports the booking
handle_shift_processing_reporting(booking_success) ==
    IF booking_success THEN "BOOKING_SUCCESS" ELSE "CONTINUE"

\* what _handle_shift_processing returns after _attempt_immediate_booking
\* returned booking_success, or was not called: "CONTINUE" on every path (the
\* return of "BOOKING_SUCCESS" is commented out)
handle_shift_processing(booking_success) ==
    "CONTINUE"

\* _process_cities_individually or _process_cities_fast_mode returns result
\* through _process_job_search_with_filters and _run_enhanced_workflow to
\* start_monitoring, which counts a "BOOKING_SUCCESS"
WorkflowReturns(c, result) ==
    [c EXCEPT !.pc = "returned", !.result = result, !.jobsLeft = 0,
              !.daily_booking_count =
                    IF result = "BOOKING_SUCCESS" THEN @ + 1 ELSE @]

\* the loop over the cities from the return of _handle_shift_processing on.
\* Fast mode, call before the filter: a "BOOKING_SUCCESS" is returned at once,
\* otherwise the filter is applied and _handle_shift_processing runs again.
\* Call after the filter: "continue" on a "BOOKING_SUCCESS", _clear_city_filter
\* otherwise, and either way the next city.
AfterShiftProcessing(c, booking_success) ==
    LET processing_result == handle_shift_processing(booking_success) IN
    IF c.pass = 1
    THEN IF processing_result = "BOOKING_SUCCESS"
         THEN WorkflowReturns(c, "BOOKING_SUCCESS")
         ELSE [c EXCEPT !.pc = "extract", !.pass = 2, !.jobsLeft = 0]
    ELSE [c EXCEPT !.pc = "city", !.i = @ + 1, !.jobsLeft = 0]

\* _run_enhanced_workflow reaches _process_job_search_with_filters with cities
\* configured and 'cities' among the active filters
process_job_search_with_filters(fast_mode, enabled, per_cycle_limit, nCities) ==
    /\ cw.pc = "idle"
    /\ cw' = [IdleCw EXCEPT !.pc = "city", !.fast_mode = fast_mode,
                            !.enabled = enabled,
                            !.per_cycle_limit = per_cycle_limit,
                            !.nCities = nCities, !.i = 1]
    /\ UNCHANGED <<bookingVars, bp, em, ex, bk, nt, cli>>

\* head of "for i, city in enumerate(cities, 1)": the loop ends and "CONTINUE"
\* is returned, or the iteration of a city begins; in fast mode
\* _quick_job_check tells whether jobs are visible before the filter
process_cities(jobs_visible) ==
    /\ cw.pc = "city"
    /\ cw' = IF cw.i > cw.nCities THEN WorkflowReturns(cw, "CONTINUE")
             ELSE [cw EXCEPT !.pc = "extract", !.order = Append(@, cw.i),
                             !.cityBooked = 0, !.jobIdx = 0,
                             !.pass = IF cw.fast_mode /\ jobs_visible THEN 1
                                      ELSE 2]
    /\ UNCHANGED <<bookingVars, bp, em, ex, bk, nt, cli>>

\* _handle_shift_processing up to the booking: the report holds n jobs, and
\* _attempt_immediate_booking is called when there are jobs and booking is
\* enabled
extract_all_job_information(n) ==
    /\ cw.pc = "extract"
    /\ cw' = IF n > 0 /\ cw.enabled
             THEN [cw EXCEPT !.pc = "booking", !.jobsLeft = n, !.jobIdx = 0]
             ELSE AfterShiftProcessing([cw EXCEPT !.jobIdx = 0], FALSE)
    /\ UNCHANGED <<bookingVars, bp, em, ex, bk, nt, cli>>

\* one iteration of "for i, job in enumerate(jobs)" of
\* _attempt_immediate_booking: no slot is discovered ("no_slots"), no book_slot
\* returns True ("failed"), or one does ("booked", return True); after the last
\* job False is returned
attempt_immediate_booking(res) ==
    /\ cw.pc = "booking"
    /\ cw.jobsLeft > 0
    /\ LET at == [cw EXCEPT !.jobsLeft = @ - 1, !.jobIdx = @ + 1] IN
       cw' = IF res = "booked"
             THEN AfterShiftProcessing(
                      [at EXCEPT !.booked = @ + 1, !.cityBooked = @ + 1,
                                 !.bookedCities = @ \cup {cw.i}], TRUE)
             ELSE IF at.jobsLeft = 0 THEN AfterShiftProcessing(at, FALSE)
             ELSE at
    /\ UNCHANGED <<bookingVars, bp, em, ex, bk, nt, cli>>

NextCycle ==
    \/ \E fast_mode \in BOOLEAN, enabled \in BOOLEAN,
          per_cycle_limit \in 1..MaxPerCycleLimit, nCities \in 1..MaxCities :
            process_job_search_with_filters(fast_mode, enabled, per_cycle_limit,
                                            nCities)
    \/ \E jobs_visible \in BOOLEAN : process_cities(jobs_visible)
    \/ \E n \in 0..MaxFound : extract_all_job_information(n)
    \/ \E res \in {"no_slots", "failed", "booked"} : attempt_immediate_booking(res)

\* one cycle of the enhanced monitor over the configured cities
SpecCycle == Init /\ [][NextCycle]_vars

\* ================================================================ claims
\* the operations that hand a job id to a booking attempt
AttemptOps == {"book_slot", "bulletproof_booking"}

\* C1: an id mark_as_booked recorded on the current day is not handed to a
\* booking attempt again that day, on either booking path and across restarts.
C1_BookedIdNotReattempted ==
    [][lastOp'.op \in AttemptOps => lastOp'.id \notin marked]_vars

\* the step constructs a ShiftBookingState: directly, or as the first use of
\* the booking handler
ConstructsLedger ==
    lastOp'.op = "construct" \/ (lastOp'.op = "begin" /\ handler = "none")

\* the last step called mark_as_booked and the call returned
MarkReturned ==
    /\ lastOp.op \in {"mark", "book_slot"}
    /\ lastWrite \in {"ok", "open_failed", "write_failed"}
    /\ handler = "ready"

\* C2: calling mark_as_booked(id) a second time on the same day leaves
\* daily_count as the first call left it, and is_already_booked(id) is true
\* after either call.
C2_MarkTwiceCountsOnce ==
    [][\A id \in Ids :
         (lastOp' = Op("mark", id) /\ handler' = "ready") =>
            /\ is_already_booked(state', id)
            /\ (lastOp = Op("mark", id) => state'.daily_count = state.daily_count)]_vars

\* C3: in every ledger state daily_count is the number of ids in booked_today.
C3_CountIsCardinality ==
    handler = "ready" => state.daily_count = Cardinality(state.booked_today)

\* C4: when mark_as_booked(id) has returned normally the state file holds a
\* complete record containing id and the incremented daily_count, whatever
\* the outcome of the file write was.
C4_MarkIsDurable ==
    MarkReturned =>
        /\ store.kind = "record"
        /\ lastOp.id \in store.booked_today
        /\ store.daily_count = state.daily_count

\* C5: a save replaces the record atomically: a step that saves, crashing or
\* not, leaves a complete record in the file, and no id saved earlier on the
\* same day is lost from it.
C5_SaveIsAtomic ==
    [][(lastWrite' = "crash" /\ store.kind = "record") =>
          /\ store'.kind = "record"
          /\ (store.last_reset_date = today =>
                 store.booked_today \subseteq store'.booked_today)]_vars

\* C6: constructing the ledger over an unreadable or corrupt state file does
\* not raise and yields an empty booked set, daily_count 0 and today's marker.
C6_CorruptStoreStartsEmpty ==
    [][(ConstructsLedger /\ store.kind \in CorruptKinds
            /\ lastWrite' # "crash") =>
          /\ ~raised'
          /\ handler' = "ready"
          /\ state' = FreshState(today)]_vars

\* C7: loading a record of a previous day with daily_count = 3 and a non-empty
\* booked set yields daily_count 0, no previously booked id booked, today's
\* marker, and the reset record in the state file.
C7_StaleRecordIsReset ==
    [][(ConstructsLedger /\ store.kind = "record"
            /\ store.last_reset_date # today /\ store.daily_count = 3
            /\ store.booked_today # {} /\ lastWrite' # "crash") =>
          /\ handler' = "ready"
          /\ state'.daily_count = 0
          /\ \A id \in store.booked_today : ~is_already_booked(state', id)
          /\ state'.last_reset_date = today
          /\ store' = RecordStore(reset_daily_state(today))]_vars

\* C8: is_already_booked(id) is true iff mark_as_booked(id) was called on the
\* current calendar day, also after the day changed under a live ledger object.
C8_BookedIffRecordedToday ==
    handler = "ready" =>
        \A id \in Ids : is_already_booked(state, id) <=> id \in marked

\* C9: the load-time reset check is idempotent: a second check right after a
\* first one on the same day changes neither the ledger fields nor the state
\* file, and a check over a record whose marker is today changes nothing.
C9_ResetCheckIdempotent ==
    [][/\ (lastOp.op = "construct" /\ handler = "ready"
            /\ lastOp'.op = "construct" /\ lastWrite' # "crash") =>
              (handler' = "ready" /\ state' = state /\ store' = store)
       /\ (lastOp'.op = "construct" /\ store.kind = "record"
            /\ store.last_reset_date = today) =>
              (handler' = "ready" /\ store' = store
               /\ RecordStore(state') = store)]_vars

\* C10: of 3 discovered candidates the first two returned False at the apply
\* step; when book_slot completes for the third, the invocation returns it as
\* booked and booked_today is what it was at the start plus that one new id.
C10_ThirdCandidateBooked ==
    [][(wf.pc = "book" /\ wf.found = 3 /\ wf.log = <<"apply", "apply">>
            /\ wf'.log = <<"apply", "apply", "completed">>) =>
          /\ Len(wf.slots) = 1
          /\ wf'.pc = "idle"
          /\ wf'.result = "booked"
          /\ wf'.booked = Head(wf.slots)
          /\ Head(wf.slots).job_id \notin wf.pre
          /\ state'.booked_today = wf.pre \cup {Head(wf.slots).job_id}
          /\ Cardinality(state'.booked_today) = Cardinality(wf.pre) + 1]_vars

\* C10 witness: an invocation that discovered 3 candidates has returned after
\* two apply failures and a completed third booking.
C10_Witness ==
    /\ wf.pc = "idle"
    /\ wf.found = 3
    /\ wf.log = <<"apply", "apply", "completed">>
    /\ wf.result = "booked"
    /\ wf.booked.job_id \in state.booked_today

\* C11: whenever a booking operation reports success (here: a booking counted
\* by _process_jobs_bulletproof), the job's id is in the booking ledger, in
\* memory or in the state file, when the result is returned.
C11_SuccessIsRecorded ==
    [][bp'.bookings_made = bp.bookings_made + 1 =>
         JobAt(bp) \in state'.booked_today \cup store'.booked_today]_vars

\* C12: a candidate is returned as booked (and marked in the ledger) only if
\* the page showed a success indicator during its completion flow.
C12_BookedOnlyWithIndicator ==
    wf.result = "booked" => wf.indicator

\* daily limit 2, and two cycles have finished, each with one booking
LimitReachedInTwo ==
    /\ bp.daily_limit = 2
    /\ bp.cycle_count = 2
    /\ bp.pc \notin {"cycle", "jobs"}
    /\ bp.oneEach
    /\ bp.total_bookings = 2

\* C13: with daily limit 2, after two cycles of one booking each the scheduler
\* is stopped and starts no further cycle: cycle_count stays 2 and no search
\* or booking is started.
C13_StopsAtDailyLimit ==
    [][LimitReachedInTwo =>
         ~bp.running /\ bp'.cycle_count = 2 /\ bp'.pc \notin {"cycle", "jobs"}]_vars

\* C14: total_bookings plus the bookings of the cycle in progress never
\* exceeds daily_limit, whatever daily_limit and per_cycle_limit are.
C14_BookingsWithinDailyLimit ==
    bp.pc # "idle" => bp.total_bookings + bp.bookings_made <= bp.daily_limit

\* cycles of the bulletproof monitor that have ended
FinishedCycles == IF bp.pc = "cycle" THEN bp.cycle_count - 1 ELSE bp.cycle_count

\* C15: while every cycle so far ended in an exception, up to the failure
\* threshold of 10: there is no recovery before the 10th failure, exactly one
\* on it, and consecutive_failures is 0 once that recovery is over.
C15_RecoveryOnTenthFailure ==
    (bp.pc # "idle" /\ bp.allRaised /\ FinishedCycles <= max_failures) =>
        /\ bp.recoveries =
             IF FinishedCycles = max_failures /\ bp.pc # "recover" THEN 1 ELSE 0
        /\ FinishedCycles < max_failures => bp.consecutive_failures = FinishedCycles
        /\ (FinishedCycles = max_failures /\ bp.pc \notin {"recover", "recovery"})
              => bp.consecutive_failures = 0

C15_Witness ==
    /\ bp.allRaised
    /\ bp.cycle_count = max_failures
    /\ bp.pc = "wait"
    /\ bp.recoveries = 1
    /\ bp.consecutive_failures = 0

\* C16: in the inter-cycle sleep of either monitor loop, no more than one
\* second is slept after running was set to false.
C16_InterCycleSleepInterruptible ==
    /\ em.pc = "sleep" => em.late <= 1
    /\ bp.pc \in {"wait", "sleep"} => bp.late <= 1

\* C17: once running is false the bulletproof loop starts no new cycle and
\* sleeps no more than one second in whichever wait it is in.
C17_StopWithinOneTick ==
    [][~bp.running => bp'.cycle_count = bp.cycle_count /\ bp'.late <= 1]_vars

\* the step leaves the loop of the bulletproof monitor / the enhanced monitor
BpLoopEnds == bp.pc # "exited" /\ bp'.pc = "exited"
EmLoopEnds == em.pc # "exited" /\ em'.pc = "exited"

\* the cycle of this step ended in an exception
BpCycleRaised == bp.pc = "cycle" /\ bp'.pc # "cycle" /\ bp'.last = "exception"
EmCycleRaised == em.pc = "workflow" /\ em'.pc # "workflow" /\ em'.last = "raised"

\* an exception in a cycle does not end the loop; the bulletproof monitor
\* counts it as one failed cycle
RaisedCycleContinues ==
    /\ BpCycleRaised =>
          /\ bp'.consecutive_failures = bp.consecutive_failures + 1
          /\ bp'.running = bp.running
          /\ bp'.pc \in {"recover", "wait", "top"}
    /\ EmCycleRaised =>
          /\ em'.running = em.running
          /\ em'.pc = "retry_sleep"

MultiSelectorOps == {"click_with_retry", "click_apply_button_bulletproof", "safe_click"}

\* C19: with an attempt budget of 3 and a target that never resolves, the
\* operation makes exactly 3 passes over its selector list, returns False and
\* raises nothing.
C19_ThreePassesThenFalse ==
    (ex.fn \in MultiSelectorOps /\ ex.budget = 3 /\ ~ex.resolved) =>
        /\ ex.pc # "raised"
        /\ ex.passes <= 3
        /\ ex.pc = "returned" => (ex.passes = 3 /\ ~ex.result)
        /\ ex.pc = "probe" => ex.passes = ex.attempt /\ ex.passes < 3

C19_Witness ==
    /\ ex.fn = "click_with_retry"
    /\ ex.budget = 3
    /\ ~ex.resolved
    /\ ex.pc = "returned"
    /\ ex.passes = 3
    /\ ~ex.result

\* C20: no click-with-retry operation lets an exception reach its caller,
\* whatever fails.
C20_ClickNeverRaises ==
    ex.pc # "raised"

\* the operations C21 names: _click_job_card_bulletproof,
\* _click_apply_button_bulletproof and selenium_helpers.click_with_retry
ResolutionOps == {"click_job_card_bulletproof", "click_apply_button_bulletproof",
                  "click_with_retry"}

\* C21: a control that gets activated is a visible, enabled control, and when
\* no locator yields such a control nothing is activated and the step reports
\* failure.
C21_ActivatesVisibleEnabledControl ==
    (ex.fn \in ResolutionOps /\ ex.pc = "returned") =>
        /\ ex.result => (ex.activated > 0 /\ ex.activatedKind = "ready")
        /\ ~ex.resolved => (~ex.result /\ ex.activated = 0)

\* a cycle ends whose search succeeded and returned no job
EmptyCycleEnds ==
    bp.pc = "cycle" /\ bp'.pc # "cycle" /\ bp'.last = "searched" /\ bp'.found = 0

\* C30: a cycle whose discovery succeeds and yields no candidates makes no
\* booking attempt and does not increase consecutive_failures (it is not on the
\* way to recovery either).
C30_EmptyCycleIsNoFailure ==
    [][EmptyCycleEnds =>
        /\ bp'.attempts = 0
        /\ bp'.bookings_made = 0
        /\ bp'.consecutive_failures <= bp.consecutive_failures
        /\ bp'.pc \notin {"jobs", "recover", "recovery"}]_vars

C30_Witness ==
    /\ bp.cycle_count = 2
    /\ bp.last = "searched"
    /\ bp.found = 0
    /\ bp.attempts = 0
    /\ bp.consecutive_failures = 0
    /\ bp.pc = "wait"

\* C24: a booking that completed is returned as a success and taken as a
\* booking by the caller, however the success notification went.
C24_NotificationNeverDowngrades ==
    (bk.completed /\ bk.pc \in {"caller", "done"}) =>
        /\ bk.result
        /\ bk.pc = "done" => bk.counted

C24_Witness ==
    /\ bk.pc = "done"
    /\ bk.completed
    /\ bk.notified \in {"false", "raised"}
    /\ bk.result
    /\ bk.counted

\* C26: within one invocation a candidate whose attempt failed is not attempted
\* again: the card step runs at most once for it.
C26_CandidateAttemptedOnce ==
    bk.cardTries <= 1

\* C27: the apply step makes at most 3 attempts for one candidate, and once
\* they are used up the candidate is abandoned (the operation returns False).
C27_ApplyBudgetThenAbandon ==
    /\ bk.applyPasses <= max_click_retries
    /\ bk.applyFailed => (bk.pc \in {"caller", "done"} /\ ~bk.result)

\* C28: at most 5 proceed controls are activated per attempt, a completion
\* check follows every activation, and none is activated after a success
\* indicator was seen.
C28_CheckAfterEveryProceed ==
    /\ bk.clicks <= max_flow_attempts
    /\ ~bk.clickedAfterSeen
    /\ bk.pc \in {"notify", "caller", "done"} => ~bk.unchecked

\* C29: whatever the modal step meets, the next step is the apply step of the
\* same attempt on the same candidate.
C29_ModalStepNonFatal ==
    [][bk.pc = "modals" =>
        /\ bk'.pc = "apply"
        /\ bk'.attempt = bk.attempt
        /\ bk'.cardTries = bk.cardTries
        /\ bk'.fn = bk.fn]_vars

C29_Witness ==
    /\ bk.pc = "apply"
    /\ bk.modal \in {"unhandled", "exception"}

\* C22: no entry point of the notifier lets an exception reach its caller.
C22_NotifierNeverRaises ==
    nt.pc # "raised"

\* C23: when EnhancedDiscordNotifier.send returns False it has made at most
\* max_retries transport attempts and has appended the message to the fallback
\* log.
C23_UndeliveredGoesToFallback ==
    (nt.entry = "send" /\ nt.pc = "returned" /\ ~nt.result) =>
        /\ nt.posts <= nt.max_retries
        /\ nt.fallback = "written"

\* C25: when the configuration cannot be loaded, or the browser or the session
\* cannot be set up, the monitoring loop runs no cycle and the process exits
\* with a non-zero code.
C25_InitFailureExitsNonZero ==
    cli.failure # "none" =>
        /\ em.cycle = 0
        /\ cli.pc = "exited" => cli.exit_code # 0

\* a cycle of the bulletproof monitor ends in this step
BpCycleEnds == bp.pc \in {"cycle", "jobs"} /\ bp'.pc \notin {"cycle", "jobs"}

\* C31: a cycle that ends with zero bookings and met an error (session not
\* valid, navigation or extraction failure in the search, exception while a job
\* was processed) increases consecutive_failures by exactly one, and at the
\* threshold the loop goes to recovery.
C31_ErredCycleCountsAsFailure ==
    [][(BpCycleEnds /\ bp'.erred /\ bp'.total_bookings = bp.total_bookings) =>
        /\ bp'.consecutive_failures = bp.consecutive_failures + 1
        /\ bp'.consecutive_failures >= max_failures => bp'.pc = "recover"]_vars

\* C32: when _enter_recovery_mode returns, main_monitor and booking_service
\* are None, consecutive_failures is 0, and the loop is running unless a stop
\* was requested, also when the notification of the recovery raised.
C32_RecoveryResetsComponents ==
    [][(bp.pc = "recovery" /\ bp'.pc # "recovery") =>
        /\ bp'.main_monitor = "none"
        /\ bp'.booking_service = "none"
        /\ bp'.consecutive_failures = 0
        /\ ~bp.stopped => bp'.running]_vars

\* C36: once the signal handler has run, at any point after construction, no
\* further cycle is started.
C36_StopRequestNeverLost ==
    [][bp.stopped => bp'.cycle_count = bp.cycle_count]_vars

\* C37: in every cycle the search works with a main monitor bound to the
\* browser opened for that cycle, and the booking service of the job loop is
\* bound to it too.
C37_ComponentsBoundToCycleDriver ==
    bp.pc = "jobs" =>
        /\ bp.searchedWith = "current"
        /\ bp.main_monitor = "current"
        /\ bp.booking_service = "current"

\* C33: within one cycle no candidate beyond the 10th of a discovered list is
\* attempted, and while none has succeeded nothing is booked.
C33_AtMostTenCandidates ==
    /\ cw.jobIdx <= jobs_cap
    /\ cw.bookedCities = {} => cw.booked = 0

\* C34: within one cycle at most one candidate is committed in each city, in
\* normal and in fast mode.
C34_OneBookingPerCity ==
    cw.cityBooked <= 1

\* the positions 1..n in order
FirstCities(n) == [k \in 1..n |-> k]

C38_BookingsWithinPerCycleLimit ==
    cw.pc # "idle" => cw.booked <= cw.per_cycle_limit

\* C39: after a cycle of the enhanced monitor, daily_booking_count has grown
\* by the number of book_slot calls of the cycle that succeeded.
C39_DailyCountEqualsBookings ==
    cw.pc = "returned" => cw.daily_booking_count = cw.booked

\* a call of attempt_bulletproof_booking has returned
BulletproofCallReturned ==
    bk.fn = "attempt_bulletproof_booking" /\ bk.pc \in {"caller", "done"}

\* C40: a call of attempt_bulletproof_booking makes at most
\* max_booking_retries attempts and, once returned, has added one to exactly
\* one of booking_success_count and booking_failure_count; a call that
\* returned False has counted a failure and reached the failure notification.
C40_EveryCallCountedOnce ==
    /\ bk.fn = "attempt_bulletproof_booking" => bk.attempt < max_booking_retries
    /\ BulletproofCallReturned =>
          /\ bk.success_counted + bk.failure_counted = 1
          /\ ~bk.result => (bk.failure_counted = 1 /\ bk.failure_notified)

====
